---- MODULE Spec2Model ----
(***************************************************************************)
(* Call retry and business-hours scheduling of the AsylumLaw voice         *)
(* assistant: the calling-hours validator (calling-hours-validator.js),    *)
(* the smart retry calculator (smart-retry-calculator.js) and the two      *)
(* webhook handlers that persist the attempt counter                       *)
(* (end-of-call-handler.js, ghl-trigger-handler.js).                       *)
(*                                                                         *)
(* Instants are JavaScript Date values: integer milliseconds.  Instant 0   *)
(* is 00:00 UTC of the Monday named by the variable epoch: Monday          *)
(* 2024-01-15 (the Monday used by scripts/test-local.js), a week in which  *)
(* the zones used have a constant UTC offset, or the Monday of a week      *)
(* whose Sunday is the day of a clock change.                              *)
(*                                                                         *)
(* The timezone detector (timezone-detector.js) keeps its prefix table in  *)
(* a module-level object, which is part of the state, and so are the       *)
(* metrics kept by the logger.                                             *)
(***************************************************************************)
EXTENDS Integers, Sequences, FiniteSets, TLC

VARIABLES
    validator,   \* the CallingHoursValidator instance (fields set by its constructor)
    now,         \* the wall clock: what new Date() / DateTime.now() returns
    calArgs,     \* arguments (dateTime, timezone) of the calendar queries
    calQuery,    \* last calendar query made (isWithinCallingHours / getNextValidCallingTime) and its result
    retryArgs,   \* the options object passed to calculateRetry
    retryInfo,   \* the object calculateRetry returned
    delayQuery,  \* the delay picked from RETRY_DELAYS for retryArgs
    contact,     \* the contact record of the CRM: phone and the custom fields the handlers use
    callsPlaced, \* outbound calls created through vapiClient.createCall
    smsAttempted, \* calls of smsClient.sendFallbackSMS
    smsSent,     \* calls of smsClient.sendFallbackSMS that succeeded
    tasksCreated, \* calls of ghlClient.createTask
    response,    \* what the last webhook handler returned (or that it threw)
    callsEnded,  \* history: end-of-call events handled for the contact
    everExhausted, \* history: some end-of-call event was decided as max_attempts_reached
    timezoneMap, \* the module-level TIMEZONE_MAP object of the timezone detector
    env,         \* process.env, as far as it is read while requests are served
    tzArgs,      \* the phone number passed to the timezone detector
    tzQuery,     \* last detectTimezone call made for tzArgs and its result
    codeQuery,   \* last getCountryCode call made for tzArgs and its result
    detected,    \* history: the timezones detectTimezone has returned for tzArgs
    inFlight,    \* end-of-call events being handled concurrently: position and locals of each
    epoch,       \* the calendar week of the run: the date of the Monday whose 00:00 UTC is instant 0
    metrics,     \* the module-level metrics object of the logger
    currentLevel, \* the module-level currentLevel of the logger, computed from LOG_LEVEL at load
    logCalls     \* history: calls of the logger and of resetMetrics made in the run

calVars == <<calArgs, calQuery>>
retryVars == <<retryArgs, delayQuery>>
handlerVars == <<contact, callsPlaced, smsAttempted, smsSent, tasksCreated, response,
                 callsEnded, everExhausted>>
detectorVars == <<timezoneMap, env, tzArgs, tzQuery, codeQuery, detected>>
loggerVars == <<metrics, currentLevel, logCalls>>

vars == <<validator, now, calArgs, calQuery, retryArgs, retryInfo, delayQuery,
          contact, callsPlaced, smsAttempted, smsSent, tasksCreated, response,
          callsEnded, everExhausted, timezoneMap, env, tzArgs, tzQuery, codeQuery,
          detected, inFlight, epoch, metrics, currentLevel, logCalls>>

----------------------------------------------------------------------------
(* Bounds of the model *)

\* last UTC day of the window from which instants are drawn (day 0 is a Monday)
MaxDay == 8

\* largest attempt count handed to calculateRetry
MaxAttemptsSoFar == 5

\* separators written into a phone number handed to the timezone detector
MaxSeparators == 1

\* end-of-call events handled for the contact in one behaviour
MaxCallsEnded == 4

\* outbound calls placed by the initial-call trigger in one behaviour
MaxCallsPlaced == 2

\* end-of-call events of one contact that are handled at the same time
ConcurrentEvents == 2

\* calls of the logger and of resetMetrics made in one behaviour
MaxLogCalls == 3

----------------------------------------------------------------------------
(* Time arithmetic: luxon DateTime over JS Date *)

MsPerMinute == 60000
MsPerSecond == MsPerMinute \div 60
MsPerHour == 60 * MsPerMinute
MsPerDay == 24 * MsPerHour

Zones == {"Europe/London", "Asia/Kabul", "America/New_York"}

\* the weeks a run can be set in: a week of January without a clock change,
\* and the weeks whose Sunday (day 6) is the day of the 2024 clock changes
\* of the United States (10 March, 3 November) and of Europe (31 March,
\* 27 October)
JanuaryWeek == "2024-01-15"
ClockChangeWeeks == {"2024-03-04", "2024-03-25", "2024-10-21", "2024-10-28"}

\* a zone whose offset does not change during the window
NoTransition(offset) == [before |-> offset, after |-> offset, at |-> 0]

\* the European clocks change on the Sunday at 01:00 UTC; the clocks of the
\* United States at 02:00 local time: 07:00 UTC in March, 06:00 UTC in November
EuropeChange == 6 * MsPerDay + MsPerHour
USSpringChange == 6 * MsPerDay + 7 * MsPerHour
USFallChange == 6 * MsPerDay + 6 * MsPerHour

\* the offsets of a zone during the window of the week, in minutes: "before"
\* up to the instant "at", "after" from it on
zoneRule(timezone) ==
    CASE timezone = "Europe/London" ->
            ( CASE epoch = "2024-03-25" -> [before |-> 0, after |-> 60, at |-> EuropeChange]
                [] epoch = "2024-10-21" -> [before |-> 60, after |-> 0, at |-> EuropeChange]
                [] OTHER -> NoTransition(0) )
      [] timezone = "Europe/Paris" ->
            ( CASE epoch = "2024-03-25" -> [before |-> 60, after |-> 120, at |-> EuropeChange]
                [] epoch = "2024-10-21" -> [before |-> 120, after |-> 60, at |-> EuropeChange]
                [] OTHER -> NoTransition(60) )
      [] timezone = "America/New_York" ->
            ( CASE epoch = "2024-03-04" ->
                       [before |-> 0 - 300, after |-> 0 - 240, at |-> USSpringChange]
                [] epoch = "2024-10-28" ->
                       [before |-> 0 - 240, after |-> 0 - 300, at |-> USFallChange]
                [] epoch \in {"2024-03-25", "2024-10-21"} -> NoTransition(0 - 240)
                [] OTHER -> NoTransition(0 - 300) )
      [] timezone = "Asia/Kabul" -> NoTransition(270)
      [] timezone = "America/Santo_Domingo" -> NoTransition(0 - 240)
      [] timezone = "Asia/Almaty" ->
            IF epoch = JanuaryWeek THEN NoTransition(360) ELSE NoTransition(300)
      [] OTHER -> NoTransition(0)

\* zone.offset(ts): UTC offset, in minutes, of a zone at an instant
zoneOffsetMinutes(timezone, ts) ==
    LET rule == zoneRule(timezone)
    IN  IF ts < rule.at THEN rule.before ELSE rule.after

\* DateTime.fromJSDate(date).setZone(timezone): the same instant, read in the zone
setZone(date, timezone) == [ts |-> date, zone |-> timezone]

\* dt.toJSDate(): the instant of the DateTime, millisecond precision on both sides
toJSDate(dt) == dt.ts

\* dt.offset
offset(dt) == zoneOffsetMinutes(dt.zone, dt.ts)

\* local wall-clock reading of a DateTime, as milliseconds since local day 0, 00:00
localMillis(dt) == dt.ts + offset(dt) * MsPerMinute

localDay(dt) == localMillis(dt) \div MsPerDay

\* dt.weekday: 1 = Monday ... 7 = Sunday
weekday(dt) == (localDay(dt) % 7) + 1

\* dt.millisecond
millisecond(dt) == localMillis(dt) % MsPerSecond

\* luxon fixOffset(localTS, o, tz): the instant of a wall-clock reading, found
\* from the offset o the DateTime had: o is kept if the zone has it at the
\* guessed instant, else the offset found there is tried, and a reading the
\* zone skips is moved on by the width of the gap
fixOffset(localTS, o, timezone) ==
    LET utcGuess == localTS - o * MsPerMinute
        o2 == zoneOffsetMinutes(timezone, utcGuess)
        utcGuess2 == utcGuess - (o2 - o) * MsPerMinute
        o3 == zoneOffsetMinutes(timezone, utcGuess2)
    IN  IF o = o2 THEN utcGuess
        ELSE IF o2 = o3 THEN utcGuess2
        ELSE localTS - (IF o2 < o3 THEN o2 ELSE o3) * MsPerMinute

\* dt.set({ hour, minute, second: 0 }): same local date, the given hour and
\* minute, second 0; the millisecond field is not named and is kept
setHourMinute(dt, hour, minute) ==
    [dt EXCEPT !.ts = fixOffset(localDay(dt) * MsPerDay + hour * MsPerHour
                                + minute * MsPerMinute + millisecond(dt),
                                offset(dt), dt.zone)]

\* dt.plus({ days: n }): n local calendar days later, same wall-clock reading
plusDays(dt, n) ==
    [dt EXCEPT !.ts = fixOffset(localMillis(dt) + n * MsPerDay, offset(dt), dt.zone)]

\* the JavaScript value undefined where a number of minutes is expected
Undefined == 0 - 1

\* dt.plus({ minutes: n }); a unit whose value is undefined is skipped
plusMinutes(dt, n) ==
    [dt EXCEPT !.ts = dt.ts + (IF n = Undefined THEN 0 ELSE n) * MsPerMinute]

----------------------------------------------------------------------------
(* CallingHoursValidator *)

\* configurations the constructor can produce from BUSINESS_HOURS_START,
\* BUSINESS_HOURS_END and BUSINESS_DAYS; the first is the default
ValidatorConfigs ==
    { [startHour |-> 9, startMinute |-> 0, endHour |-> 19, endMinute |-> 0,
       businessDays |-> {1, 2, 3, 4, 5}],
      [startHour |-> 9, startMinute |-> 30, endHour |-> 17, endMinute |-> 0,
       businessDays |-> {1, 3, 6}],
      [startHour |-> 0, startMinute |-> 0, endHour |-> 23, endMinute |-> 30,
       businessDays |-> {7}] }

\* the constructor, on the environment variables it reads: BUSINESS_HOURS_START
\* and BUSINESS_HOURS_END as the numbers of their "H:M" or "H" text, and
\* BUSINESS_DAYS as the list of its numbers; <<>> is a variable that is unset
CallingHoursValidator(businessEnv) ==
    [startHour |-> IF businessEnv.BUSINESS_HOURS_START = <<>> THEN 9
                   ELSE businessEnv.BUSINESS_HOURS_START[1],
     startMinute |-> IF Len(businessEnv.BUSINESS_HOURS_START) < 2 THEN 0
                     ELSE businessEnv.BUSINESS_HOURS_START[2],
     endHour |-> IF businessEnv.BUSINESS_HOURS_END = <<>> THEN 19
                 ELSE businessEnv.BUSINESS_HOURS_END[1],
     endMinute |-> IF Len(businessEnv.BUSINESS_HOURS_END) < 2 THEN 0
                   ELSE businessEnv.BUSINESS_HOURS_END[2],
     businessDays |-> IF businessEnv.BUSINESS_DAYS = <<>> THEN {1, 2, 3, 4, 5}
                      ELSE { businessEnv.BUSINESS_DAYS[i] :
                               i \in DOMAIN businessEnv.BUSINESS_DAYS }]

isWithinCallingHours_EndInclusive(dateTime, timezone) ==
    LET dt == setZone(dateTime, timezone)
        startOfDay == setHourMinute(dt, validator.startHour, validator.startMinute)
        endOfDay == setHourMinute(dt, validator.endHour, validator.endMinute)
    IN  IF weekday(dt) \notin validator.businessDays
        THEN FALSE
        ELSE dt.ts >= startOfDay.ts /\ dt.ts <= endOfDay.ts

isWithinCallingHours(dateTime, timezone) ==
    LET dt == setZone(dateTime, timezone)
        startOfDay == setHourMinute(dt, validator.startHour, validator.startMinute)
        endOfDay == setHourMinute(dt, validator.endHour, validator.endMinute)
    IN  IF weekday(dt) \notin validator.businessDays
        THEN FALSE
        ELSE dt.ts >= startOfDay.ts /\ dt.ts < endOfDay.ts

\* iteration cap of the business-day search
MaxIterations == 7

\* the while loop of getNextValidCallingTime
RECURSIVE advanceToBusinessDay(_, _)
advanceToBusinessDay(nextDay, maxIterations) ==
    IF weekday(nextDay) \notin validator.businessDays /\ maxIterations > 0
    THEN advanceToBusinessDay(plusDays(nextDay, 1), maxIterations - 1)
    ELSE nextDay

getNextValidCallingTime_NoEarlyReturn(fromDateTime, timezone) ==
    LET dt == setZone(fromDateTime, timezone)
        todayStart == setHourMinute(dt, validator.startHour, validator.startMinute)
        nextDay == setHourMinute(plusDays(dt, 1), validator.startHour, validator.startMinute)
    IN  IF dt.ts < todayStart.ts /\ weekday(dt) \in validator.businessDays
        THEN toJSDate(todayStart)
        ELSE toJSDate(advanceToBusinessDay(nextDay, MaxIterations))

getNextValidCallingTime_NoBeforeCheck(fromDateTime, timezone) ==
    LET dt == setZone(fromDateTime, timezone)
        todayStart == setHourMinute(dt, validator.startHour, validator.startMinute)
        nextDay == setHourMinute(plusDays(dt, 1), validator.startHour, validator.startMinute)
    IN  IF isWithinCallingHours(toJSDate(dt), timezone)
        THEN toJSDate(dt)
        ELSE IF weekday(dt) \in validator.businessDays
        THEN toJSDate(todayStart)
        ELSE toJSDate(advanceToBusinessDay(nextDay, MaxIterations))

getNextValidCallingTime(fromDateTime, timezone) ==
    LET dt == setZone(fromDateTime, timezone)
        todayStart == setHourMinute(dt, validator.startHour, validator.startMinute)
        nextDay == setHourMinute(plusDays(dt, 1), validator.startHour, validator.startMinute)
    IN  IF isWithinCallingHours(toJSDate(dt), timezone)
        THEN toJSDate(dt)
        ELSE IF dt.ts < todayStart.ts /\ weekday(dt) \in validator.businessDays
        THEN toJSDate(todayStart)
        ELSE toJSDate(advanceToBusinessDay(nextDay, MaxIterations))

\* Math.round(numerator / denominator) for a non-negative quotient: halves round up
MathRound(numerator, denominator) == (numerator + denominator \div 2) \div denominator

calculateDelayWithinHours_NominalDelay(delayMinutes, timezone) ==
    LET nowDt == setZone(now, timezone)
        targetTime == plusMinutes(nowDt, delayMinutes)
    IN  IF isWithinCallingHours(toJSDate(targetTime), timezone)
        THEN [withinHours |-> TRUE, adjustedTime |-> toJSDate(targetTime),
              originalDelay |-> delayMinutes, adjustedDelay |-> delayMinutes]
        ELSE [withinHours |-> FALSE,
              adjustedTime |-> getNextValidCallingTime(toJSDate(targetTime), timezone),
              originalDelay |-> delayMinutes, adjustedDelay |-> delayMinutes]

calculateDelayWithinHours_Unadjusted(delayMinutes, timezone) ==
    LET nowDt == setZone(now, timezone)
        targetTime == plusMinutes(nowDt, delayMinutes)
    IN  [withinHours |-> isWithinCallingHours(toJSDate(targetTime), timezone),
         adjustedTime |-> toJSDate(targetTime),
         originalDelay |-> delayMinutes, adjustedDelay |-> delayMinutes]

calculateDelayWithinHours(delayMinutes, timezone) ==
    LET nowDt == setZone(now, timezone)
        targetTime == plusMinutes(nowDt, delayMinutes)
    IN  IF isWithinCallingHours(toJSDate(targetTime), timezone)
        THEN [withinHours |-> TRUE, adjustedTime |-> toJSDate(targetTime),
              originalDelay |-> delayMinutes, adjustedDelay |-> delayMinutes]
        ELSE LET nextValidTime == getNextValidCallingTime(toJSDate(targetTime), timezone)
             IN  [withinHours |-> FALSE, adjustedTime |-> nextValidTime,
                  originalDelay |-> delayMinutes,
                  adjustedDelay |-> MathRound(nextValidTime - toJSDate(nowDt), MsPerMinute)]

----------------------------------------------------------------------------
(* TimezoneDetector *)

\* phone numbers are sequences of one-character strings
Separators == {" ", "-", "(", ")"}

\* the entries of the TIMEZONE_MAP object literal used by the modelled phone
\* numbers, in source order, as <<key, value>>; the literal lists '+93' twice
TimezoneEntries ==
    << << <<"+", "4", "4">>, "Europe/London" >>,
       << <<"+", "3", "3">>, "Europe/Paris" >>,
       << <<"+", "9", "3">>, "Asia/Kabul" >>,
       << <<"+", "9", "3">>, "Asia/Kabul" >>,
       << <<"+", "7">>, "Asia/Almaty" >>,
       << <<"+", "1">>, "America/New_York" >>,
       << <<"+", "1", "8", "0", "9">>, "America/Santo_Domingo" >> >>

\* the object the literal evaluates to: one property per key, a repeated key
\* taking the value of its last occurrence
TIMEZONE_MAP ==
    [ code \in { TimezoneEntries[i][1] : i \in DOMAIN TimezoneEntries } |->
        LET last == CHOOSE i \in DOMAIN TimezoneEntries :
                        /\ TimezoneEntries[i][1] = code
                        /\ \A j \in DOMAIN TimezoneEntries :
                              TimezoneEntries[j][1] = code => j <= i
        IN  TimezoneEntries[last][2] ]

\* process.env.DEFAULT_TIMEZONE || 'Europe/London'; an unset variable is ""
DefaultTimezone ==
    IF env.DEFAULT_TIMEZONE # "" THEN env.DEFAULT_TIMEZONE ELSE "Europe/London"

cleanPhone_KeepParentheses(phoneNumber) ==
    SelectSeq(phoneNumber, LAMBDA c : c \notin {" ", "-"})

\* phoneNumber.replace(/[\s\-\(\)]/g, '')
cleanPhone(phoneNumber) == SelectSeq(phoneNumber, LAMBDA c : c \notin Separators)

\* cleaned.startsWith(code)
startsWith(cleaned, code) ==
    /\ Len(code) <= Len(cleaned)
    /\ SubSeq(cleaned, 1, Len(code)) = code

\* the keys of the table the cleaned number starts with
matchingCodes(cleaned) == { code \in DOMAIN timezoneMap : startsWith(cleaned, code) }

\* the first element of sortedCodes (the keys, longest first) that is in a
\* non-empty set of matching keys: matching keys of one length are equal
firstSorted(matching) ==
    CHOOSE code \in matching : \A other \in matching : Len(other) <= Len(code)

detectTimezone_ShortestFirst(phoneNumber) ==
    IF phoneNumber = <<>>
    THEN DefaultTimezone
    ELSE LET matching == matchingCodes(cleanPhone(phoneNumber))
         IN  IF matching = {}
             THEN DefaultTimezone
             ELSE timezoneMap[CHOOSE code \in matching :
                                 \A other \in matching : Len(code) <= Len(other)]

\* a missing phone number (undefined, null, '') is <<>>
detectTimezone(phoneNumber) ==
    IF phoneNumber = <<>>
    THEN DefaultTimezone
    ELSE LET matching == matchingCodes(cleanPhone(phoneNumber))
         IN  IF matching = {}
             THEN DefaultTimezone
             ELSE timezoneMap[firstSorted(matching)]

\* the null that getCountryCode returns
NoCountryCode == <<>>

getCountryCode_AssumeUK(phoneNumber) ==
    IF phoneNumber = <<>>
    THEN NoCountryCode
    ELSE LET matching == matchingCodes(cleanPhone(phoneNumber))
         IN  IF matching = {} THEN <<"+", "4", "4">> ELSE firstSorted(matching)

getCountryCode(phoneNumber) ==
    IF phoneNumber = <<>>
    THEN NoCountryCode
    ELSE LET matching == matchingCodes(cleanPhone(phoneNumber))
         IN  IF matching = {} THEN NoCountryCode ELSE firstSorted(matching)

\* TIMEZONE_MAP[countryCode] = timezone: the table after the assignment
addMapping(countryCode, timezone) ==
    [ code \in DOMAIN timezoneMap \cup {countryCode} |->
        IF code = countryCode THEN timezone ELSE timezoneMap[code] ]

----------------------------------------------------------------------------
(* Logger and metrics *)

LOG_LEVELS == [DEBUG |-> 0, INFO |-> 1, WARN |-> 2, ERROR |-> 3, CRITICAL |-> 4]

\* String.prototype.toUpperCase on the values LOG_LEVEL is given
toUpperCase(str) ==
    CASE str = "debug" -> "DEBUG"
      [] str = "info" -> "INFO"
      [] str = "warn" -> "WARN"
      [] str = "error" -> "ERROR"
      [] str = "critical" -> "CRITICAL"
      [] OTHER -> str

\* LOG_LEVELS[process.env.LOG_LEVEL?.toUpperCase()] || LOG_LEVELS.INFO, for
\* LOG_LEVEL unset ("") or set: a name that is not a level, and DEBUG, whose
\* level 0 is falsy, give INFO
levelFrom(logLevel) ==
    LET name == toUpperCase(logLevel)
    IN  IF name \in DOMAIN LOG_LEVELS /\ LOG_LEVELS[name] # 0
        THEN LOG_LEVELS[name]
        ELSE LOG_LEVELS.INFO

\* entries logger.error keeps in metrics.errors
MaxErrorsKept == 100

\* durations logger.response keeps in metrics.responseTime
MaxResponseTimesKept == 1000

\* the metrics object as the module creates it; the module is loaded at instant 0
FreshMetrics ==
    [requests |-> [total |-> 0, success |-> 0, failed |-> 0],
     functionCalls |-> {}, responseTime |-> <<>>, errors |-> <<>>,
     callOutcomes |-> {}, lastReset |-> 0]

\* array.push(item) followed by array.shift() when the array is longer than limit
pushAndTrim(array, item, limit) ==
    LET pushed == Append(array, item)
    IN  IF Len(pushed) > limit THEN Tail(pushed) ELSE pushed

\* the entry logger.error and logger.critical push; statusCode is the one
\* context field that differs between the entries of the model (0: not given)
ErrorEntry(message, severity, statusCode) ==
    [timestamp |-> now, message |-> message, severity |-> severity,
     statusCode |-> statusCode]

\* logger.error(message, context): what it makes of the metrics object m
loggerError(m, message, statusCode) ==
    IF currentLevel <= LOG_LEVELS.ERROR
    THEN [m EXCEPT !.errors =
                pushAndTrim(@, ErrorEntry(message, "", statusCode), MaxErrorsKept)]
    ELSE m

\* logger.critical(message, context): the entry is pushed at every level and
\* the array is not trimmed
loggerCritical(m, message) ==
    [m EXCEPT !.errors = Append(@, ErrorEntry(message, "CRITICAL", 0))]

\* logger.response(req, res, duration): what it makes of the metrics object
\* m; a status of 500 or more is logged through logger.error, the others
\* through logger.warn and logger.info, which keep nothing
loggerResponse(m, statusCode, duration) ==
    LET counted == IF statusCode < 400
                   THEN [m EXCEPT !.requests.success = @ + 1]
                   ELSE [m EXCEPT !.requests.failed = @ + 1]
        timed == [counted EXCEPT !.responseTime =
                      pushAndTrim(@, duration, MaxResponseTimesKept)]
    IN  IF statusCode >= 500 THEN loggerError(timed, "Response", statusCode) ELSE timed

\* resetMetrics(): everything but the errors is cleared
resetMetrics(m) ==
    [m EXCEPT !.requests = [total |-> 0, success |-> 0, failed |-> 0],
              !.functionCalls = {}, !.responseTime = <<>>, !.callOutcomes = {},
              !.lastReset = now]

\* the logger as loaded with LOG_LEVEL unset, nothing logged
LoggerIdle ==
    /\ metrics = FreshMetrics
    /\ currentLevel = levelFrom("")
    /\ logCalls = 0

----------------------------------------------------------------------------
(* SmartRetryCalculator *)

RETRY_DELAYS ==
    [ default |-> <<60, 180, 360>> ] @@
    ( "customer-did-not-answer" :> <<30, 120, 240>> ) @@
    ( "customer-ended-call" :> <<120, 360, 1440>> ) @@
    ( "customer-busy" :> <<60, 240, 720>> ) @@
    ( "assistant-error" :> <<5, 15, 30>> )

MAX_ATTEMPTS == 3

\* a timezone option that is absent (undefined or empty: falsy)
NoTimezone == ""

\* property names an object literal inherits from Object.prototype (some of
\* them): RETRY_DELAYS[name] is the inherited function, which is truthy and
\* has no indexed element
ObjectPrototypeNames == {"constructor", "toString", "valueOf", "hasOwnProperty"}

\* RETRY_DELAYS[endedReason] || RETRY_DELAYS['default']; the indexed elements
\* of the value found
delaysFor(endedReason) ==
    IF endedReason \in DOMAIN RETRY_DELAYS
    THEN RETRY_DELAYS[endedReason]
    ELSE IF endedReason \in ObjectPrototypeNames
    THEN <<>>
    ELSE RETRY_DELAYS["default"]

delayMinutes_Wrap(endedReason, currentAttempts) ==
    LET delays == delaysFor(endedReason)
    IN  delays[(currentAttempts % Len(delays)) + 1]

\* delays[currentAttempts] || delays[delays.length - 1]; the sequence is
\* 1-based here, and an index outside the array reads undefined
delayMinutes(endedReason, currentAttempts) ==
    LET delays == delaysFor(endedReason)
    IN  IF currentAttempts >= 0 /\ currentAttempts < Len(delays)
           /\ delays[currentAttempts + 1] # 0
        THEN delays[currentAttempts + 1]
        ELSE IF Len(delays) > 0
        THEN delays[Len(delays)]
        ELSE Undefined

calculateRetry_OffByOne(options) ==
    LET timezone == IF options.timezone # NoTimezone THEN options.timezone
                    ELSE detectTimezone(options.phoneNumber)
    IN  IF options.currentAttempts > MAX_ATTEMPTS
        THEN [shouldRetry |-> FALSE, reason |-> "max_attempts_reached",
              attempts |-> options.currentAttempts, maxAttempts |-> MAX_ATTEMPTS,
              action |-> "send_sms_fallback"]
        ELSE LET delay == delayMinutes(options.endedReason, options.currentAttempts)
                 within == calculateDelayWithinHours(delay, timezone)
             IN  [shouldRetry |-> TRUE, attempts |-> options.currentAttempts + 1,
                  maxAttempts |-> MAX_ATTEMPTS, originalDelayMinutes |-> delay,
                  adjustedDelayMinutes |-> within.adjustedDelay,
                  nextCallTime |-> within.adjustedTime,
                  timezone |-> timezone,
                  wasAdjustedForBusinessHours |-> ~within.withinHours,
                  endedReason |-> options.endedReason]

calculateRetry_PhoneFirst(options) ==
    LET timezone == detectTimezone(options.phoneNumber)
    IN  IF options.currentAttempts >= MAX_ATTEMPTS
        THEN [shouldRetry |-> FALSE, reason |-> "max_attempts_reached",
              attempts |-> options.currentAttempts, maxAttempts |-> MAX_ATTEMPTS,
              action |-> "send_sms_fallback"]
        ELSE LET delay == delayMinutes(options.endedReason, options.currentAttempts)
                 within == calculateDelayWithinHours(delay, timezone)
             IN  [shouldRetry |-> TRUE, attempts |-> options.currentAttempts + 1,
                  maxAttempts |-> MAX_ATTEMPTS, originalDelayMinutes |-> delay,
                  adjustedDelayMinutes |-> within.adjustedDelay,
                  nextCallTime |-> within.adjustedTime,
                  timezone |-> timezone,
                  wasAdjustedForBusinessHours |-> ~within.withinHours,
                  endedReason |-> options.endedReason]

\* the returned object; nextCallTimeISO is nextCallTime written as an ISO-8601
\* UTC string with milliseconds, which denotes the same instant
calculateRetry(options) ==
    LET timezone == IF options.timezone # NoTimezone THEN options.timezone
                    ELSE detectTimezone(options.phoneNumber)
    IN  IF options.currentAttempts >= MAX_ATTEMPTS
        THEN [shouldRetry |-> FALSE, reason |-> "max_attempts_reached",
              attempts |-> options.currentAttempts, maxAttempts |-> MAX_ATTEMPTS,
              action |-> "send_sms_fallback"]
        ELSE LET delay == delayMinutes(options.endedReason, options.currentAttempts)
                 within == calculateDelayWithinHours(delay, timezone)
             IN  [shouldRetry |-> TRUE, attempts |-> options.currentAttempts + 1,
                  maxAttempts |-> MAX_ATTEMPTS, originalDelayMinutes |-> delay,
                  adjustedDelayMinutes |-> within.adjustedDelay,
                  nextCallTime |-> within.adjustedTime,
                  timezone |-> timezone,
                  wasAdjustedForBusinessHours |-> ~within.withinHours,
                  endedReason |-> options.endedReason]

----------------------------------------------------------------------------
(* Inputs of the calendar queries *)

\* wall-clock readings (minute of the UTC day) at and next to every half hour
SampleMinutes == { h * 60 + m : h \in 0..23, m \in {0, 29, 30, 59} }

\* second and millisecond fields of the sampled instants
SampleSeconds == {0, 59}
SampleMillis == {0, 500}

SampleInstants ==
    { d * MsPerDay + mn * MsPerMinute + s * MsPerSecond + ms :
        d \in 1..MaxDay, mn \in SampleMinutes, s \in SampleSeconds, ms \in SampleMillis }

NoArgs == [op |-> "none"]
NoQuery == [op |-> "none"]
NoRetryInfo == [op |-> "none"]

PhoneUK == <<"+", "4", "4", "7", "7">>
PhoneKabul == <<"+", "9", "3", " ", "7", "0">>

\* a contact just created in the CRM: none of the call fields is set
NewContact(phone) ==
    [phone |-> phone, call_attempts |-> <<>>, next_call_scheduled |-> <<>>,
     last_call_time |-> <<>>, ended_reason |-> "",
     confirmation_status |-> "", tags |-> {}]

NoResponse == [handler |-> "none"]

\* no webhook has been handled
NoWebhookHandled ==
    /\ callsPlaced = 0
    /\ smsAttempted = 0
    /\ smsSent = 0
    /\ tasksCreated = 0
    /\ response = NoResponse
    /\ callsEnded = 0
    /\ everExhausted = FALSE
    /\ inFlight = <<>>

\* the webhook handlers have not run
HandlersIdle ==
    /\ contact = NewContact(PhoneUK)
    /\ NoWebhookHandled

\* the timezone detector as loaded: the table of the literal, no call made,
\* DEFAULT_TIMEZONE not set
DetectorIdle ==
    /\ timezoneMap = TIMEZONE_MAP
    /\ env = [DEFAULT_TIMEZONE |-> ""]
    /\ tzArgs = NoArgs
    /\ tzQuery = NoQuery
    /\ codeQuery = NoQuery
    /\ detected = {}

----------------------------------------------------------------------------
(* Specification of the calendar: the two queries applied to sampled inputs *)

InitCal ==
    /\ epoch = JanuaryWeek
    /\ LoggerIdle
    /\ validator \in ValidatorConfigs
    /\ now = MsPerDay
    /\ calArgs \in [dateTime : SampleInstants, timezone : Zones]
    /\ calQuery = NoQuery
    /\ retryArgs = NoArgs
    /\ retryInfo = NoRetryInfo
    /\ delayQuery = NoQuery
    /\ HandlersIdle
    /\ DetectorIdle

IsWithinCallingHoursCall ==
    /\ calQuery' = [op |-> "isWithinCallingHours",
                    value |-> isWithinCallingHours(calArgs.dateTime, calArgs.timezone)]
    /\ UNCHANGED <<epoch, loggerVars, validator,
                   now, calArgs, retryArgs, retryInfo, delayQuery, handlerVars,
                   detectorVars, inFlight>>

GetNextValidCallingTimeCall ==
    /\ calQuery' = [op |-> "getNextValidCallingTime",
                    value |-> getNextValidCallingTime(calArgs.dateTime, calArgs.timezone)]
    /\ UNCHANGED <<epoch, loggerVars, validator,
                   now, calArgs, retryArgs, retryInfo, delayQuery, handlerVars,
                   detectorVars, inFlight>>

NextCal == IsWithinCallingHoursCall \/ GetNextValidCallingTimeCall

SpecCal == InitCal /\ [][NextCal]_vars

----------------------------------------------------------------------------
(* Specification of the retry calculator: calculateRetry and its delay     *)
(* selection applied to sampled options at sampled clock readings          *)

\* end reasons: the four of the policy table and one the table does not have
EndedReasons == {"customer-did-not-answer", "customer-ended-call",
                 "customer-busy", "assistant-error", "carrier-dropped"}

\* clock readings from Friday on: several times of day, with and without a
\* second and a millisecond fraction
RetryNowSamples ==
    { d * MsPerDay + (h * 60 + m) * MsPerMinute + s * MsPerSecond + ms :
        d \in 4..MaxDay, h \in {3, 8, 12, 18, 23}, m \in {0, 45},
        s \in {0, 30}, ms \in {0, 500} }

RetryOptions ==
    [endedReason : EndedReasons, currentAttempts : (0 - 1)..MaxAttemptsSoFar,
     phoneNumber : {PhoneUK, PhoneKabul}, timezone : {NoTimezone, "America/New_York"}]

InitRetry ==
    /\ epoch = JanuaryWeek
    /\ LoggerIdle
    /\ validator \in ValidatorConfigs
    /\ now \in RetryNowSamples
    /\ calArgs = NoArgs
    /\ calQuery = NoQuery
    /\ retryArgs \in RetryOptions
    /\ retryInfo = NoRetryInfo
    /\ delayQuery = NoQuery
    /\ HandlersIdle
    /\ DetectorIdle

CalculateRetryCall ==
    /\ retryInfo' = [op |-> "calculateRetry", ret |-> calculateRetry(retryArgs)]
    /\ UNCHANGED <<epoch, loggerVars, validator,
                   now, calVars, retryArgs, delayQuery, handlerVars,
                   detectorVars, inFlight>>

SelectDelayCall ==
    /\ delayQuery' = [op |-> "delayMinutes",
                      value |-> delayMinutes(retryArgs.endedReason, retryArgs.currentAttempts)]
    /\ UNCHANGED <<epoch, loggerVars, validator,
                   now, calVars, retryArgs, retryInfo, handlerVars,
                   detectorVars, inFlight>>

NextRetry == CalculateRetryCall \/ SelectDelayCall

SpecRetry == InitRetry /\ [][NextRetry]_vars

----------------------------------------------------------------------------
(* Specification of the retry calculator on end reasons that RETRY_DELAYS  *)
(* does not list                                                           *)

\* end reasons without an entry in the policy table: two that the call
\* platform reports and two that are names of inherited object properties
UnlistedReasons == {"carrier-dropped", "voicemail", "constructor", "toString"}

UnlistedReasonOptions ==
    [endedReason : UnlistedReasons, currentAttempts : 0..MaxAttemptsSoFar,
     phoneNumber : {PhoneUK}, timezone : {NoTimezone}]

InitReason ==
    /\ epoch = JanuaryWeek
    /\ LoggerIdle
    /\ validator \in ValidatorConfigs
    /\ now \in RetryNowSamples
    /\ calArgs = NoArgs
    /\ calQuery = NoQuery
    /\ retryArgs \in UnlistedReasonOptions
    /\ retryInfo = NoRetryInfo
    /\ delayQuery = NoQuery
    /\ HandlersIdle
    /\ DetectorIdle

SpecReason == InitReason /\ [][NextRetry]_vars

----------------------------------------------------------------------------
(* Specification of the timezone detector: detectTimezone and              *)
(* getCountryCode applied to sampled phone numbers, with the table as      *)
(* loaded                                                                  *)

\* the default business hours
DefaultValidator ==
    [startHour |-> 9, startMinute |-> 0, endHour |-> 19, endMinute |-> 0,
     businessDays |-> {1, 2, 3, 4, 5}]

\* phone numbers written without separators: numbers of the table's
\* countries, numbers next to a table key ("+18", "+180", "+9", "+"), numbers
\* no key matches, and the missing phone number <<>>
PlainNumbers ==
    { <<>>,
      <<"+", "4", "4", "7", "7">>,
      <<"+", "3", "3", "6">>,
      <<"+", "9", "3", "7", "0">>,
      <<"+", "7", "7", "0">>,
      <<"+", "1", "2", "1", "2">>,
      <<"+", "1", "8", "0", "9", "5">>,
      <<"+", "1", "8", "0", "9">>,
      <<"+", "1", "8", "0">>,
      <<"+", "1", "8">>,
      <<"+", "1">>,
      <<"+", "9">>,
      <<"+">>,
      <<"+", "9", "9", "9", "1">>,
      <<"0", "7", "7", "0">>,
      <<"4", "4", "7", "7">>,
      <<"1", "8", "0", "9">> }

\* '+1 (809) 555-0100' and '+44 7700-900123', written in full
PhoneDominican ==
    <<"+", "1", " ", "(", "8", "0", "9", ")", " ", "5", "5", "5", "-", "0", "1", "0", "0">>
PhoneUKSpaced ==
    <<"+", "4", "4", " ", "7", "7", "0", "0", "-", "9", "0", "0", "1", "2", "3">>

\* a phone number with one more separator written at a position
insertAt(phoneNumber, i, c) ==
    SubSeq(phoneNumber, 1, i) \o <<c>> \o SubSeq(phoneNumber, i + 1, Len(phoneNumber))

\* the phone numbers of a set, written with up to n more separators
RECURSIVE withSeparators(_, _)
withSeparators(numbers, n) ==
    IF n = 0
    THEN numbers
    ELSE numbers \cup withSeparators(
             UNION { { insertAt(p, i, c) : i \in 0..Len(p), c \in Separators } :
                     p \in numbers }, n - 1)

PhoneInputs == withSeparators(PlainNumbers, MaxSeparators) \cup {PhoneDominican, PhoneUKSpaced}

\* process.env as read by the detector: DEFAULT_TIMEZONE unset or set
DetectorEnvs == { [DEFAULT_TIMEZONE |-> ""], [DEFAULT_TIMEZONE |-> "Asia/Kabul"] }

InitTz ==
    /\ epoch = JanuaryWeek
    /\ LoggerIdle
    /\ validator = DefaultValidator
    /\ now = MsPerDay
    /\ calArgs = NoArgs
    /\ calQuery = NoQuery
    /\ retryArgs = NoArgs
    /\ retryInfo = NoRetryInfo
    /\ delayQuery = NoQuery
    /\ HandlersIdle
    /\ timezoneMap = TIMEZONE_MAP
    /\ env \in DetectorEnvs
    /\ tzArgs \in PhoneInputs
    /\ tzQuery = NoQuery
    /\ codeQuery = NoQuery
    /\ detected = {}

DetectTimezoneCall ==
    /\ \E timezone \in {detectTimezone(tzArgs)} :
          /\ tzQuery' = [op |-> "detectTimezone", value |-> timezone]
          /\ detected' = detected \cup {timezone}
    /\ UNCHANGED <<epoch, loggerVars, validator,
                   now, calVars, retryVars, retryInfo, handlerVars, inFlight,
                   timezoneMap, env, tzArgs, codeQuery>>

GetCountryCodeCall ==
    /\ codeQuery' = [op |-> "getCountryCode", value |-> getCountryCode(tzArgs)]
    /\ UNCHANGED <<epoch, loggerVars, validator,
                   now, calVars, retryVars, retryInfo, handlerVars, inFlight,
                   timezoneMap, env, tzArgs, tzQuery, detected>>

NextTz == DetectTimezoneCall \/ GetCountryCodeCall

SpecTz == InitTz /\ [][NextTz]_vars

----------------------------------------------------------------------------
(* Specification of the timezone detector module: every operation of the   *)
(* exported object that reads or writes the table, in any order            *)

\* country codes and timezones passed to addMapping: a key of the table, a
\* key that extends one and a new one
MappedCodes == { <<"+", "4", "4">>, <<"+", "1", "8">>, <<"+", "9", "9", "9">> }
MappedTimezones == {"Europe/Paris", "Asia/Kabul"}

InitTzModule ==
    /\ epoch = JanuaryWeek
    /\ LoggerIdle
    /\ validator = DefaultValidator
    /\ now = MsPerDay
    /\ calArgs = NoArgs
    /\ calQuery = NoQuery
    /\ retryArgs = NoArgs
    /\ retryInfo = NoRetryInfo
    /\ delayQuery = NoQuery
    /\ HandlersIdle
    /\ timezoneMap = TIMEZONE_MAP
    /\ env \in DetectorEnvs
    /\ tzArgs \in PlainNumbers \cup {PhoneDominican, PhoneUKSpaced}
    /\ tzQuery = NoQuery
    /\ codeQuery = NoQuery
    /\ detected = {}

AddMappingCall ==
    /\ \E countryCode \in MappedCodes, timezone \in MappedTimezones :
          timezoneMap' = addMapping(countryCode, timezone)
    /\ UNCHANGED <<epoch, loggerVars, validator,
                   now, calVars, retryVars, retryInfo, handlerVars, inFlight,
                   env, tzArgs, tzQuery, codeQuery, detected>>

NextTzModule == DetectTimezoneCall \/ GetCountryCodeCall \/ AddMappingCall

SpecTzModule == InitTzModule /\ [][NextTzModule]_vars

----------------------------------------------------------------------------
(* Specification of the service from its start: the validator is built by  *)
(* its constructor from the environment, the detector's table is the one   *)
(* of the literal, and the operations that serve requests are applied      *)

\* environments the service can be started in: variables unset, set to a
\* well-formed value, or set to an end before the start, to days that are
\* no luxon weekday (0 for Sunday, 8), or to hours without minutes
StartupEnvs ==
    [BUSINESS_HOURS_START : { <<>>, <<9, 30>>, <<19, 0>>, <<17>> },
     BUSINESS_HOURS_END : { <<>>, <<17, 0>>, <<9, 0>> },
     BUSINESS_DAYS : { <<>>, <<1, 3, 6>>, <<0>>, <<8, 0>> }]

\* requests of the first week: each day at 08:00, 12:00 and 20:00 UTC
StartupInstants == { d * MsPerDay + h * MsPerHour : d \in 1..7, h \in {8, 12, 20} }

StartupOptions ==
    [endedReason : {"customer-busy"}, currentAttempts : {0, MAX_ATTEMPTS},
     phoneNumber : {PhoneUK, PhoneKabul}, timezone : {NoTimezone}]

InitStartup ==
    /\ epoch = JanuaryWeek
    /\ LoggerIdle
    /\ validator \in { CallingHoursValidator(businessEnv) : businessEnv \in StartupEnvs }
    /\ now = 4 * MsPerDay + 18 * MsPerHour
    /\ calArgs \in [dateTime : StartupInstants, timezone : {"Europe/London"}]
    /\ calQuery = NoQuery
    /\ retryArgs \in StartupOptions
    /\ retryInfo = NoRetryInfo
    /\ delayQuery = NoQuery
    /\ HandlersIdle
    /\ DetectorIdle

NextStartup ==
    IsWithinCallingHoursCall \/ GetNextValidCallingTimeCall \/ CalculateRetryCall

SpecStartup == InitStartup /\ [][NextStartup]_vars

----------------------------------------------------------------------------
(* Webhook handlers.  A handler runs to completion as one step.  The CRM   *)
(* keeps the custom fields under the names the handlers read them by       *)
(* (call_attempts, ...), the GHL_FIELD_* identifiers being configured;     *)
(* GHLClient.buildCustomFields has no identifier for the timezone the      *)
(* handlers pass to it, so that value is not stored.                       *)
(* At most one collaborator call fails in one run of a handler; "fail"     *)
(* names it.                                                               *)

Digits == {"0", "1", "2", "3", "4", "5", "6", "7", "8", "9"}

\* GHLTriggerHandler.formatPhoneNumber, for a phone number that is present
formatPhoneNumber(phone) ==
    LET cleaned == SelectSeq(phone, LAMBDA c : c \in Digits \cup {"+"})
        national == IF Len(cleaned) = 11 /\ cleaned[1] = "0"
                    THEN <<"+", "4", "4">> \o Tail(cleaned)
                    ELSE cleaned
    IN  IF national # <<>> /\ national[1] = "+"
        THEN national
        ELSE <<"+", "4", "4">> \o national

\* parseInt(contact.customFields?.call_attempts || '0'): the stored value is
\* the decimal string of an integer, absent on a new contact
storedAttempts(c) == IF c.call_attempts = <<>> THEN 0 ELSE c.call_attempts[1]

\* the handler threw: the route answers 500
Threw(handler) == [handler |-> handler, success |-> FALSE, threw |-> TRUE]

EndOfCallFailures == {"none", "getContact", "updateCustomFields",
                      "updateConfirmationStatus", "addTags", "sendFallbackSMS"}

\* EndOfCallHandler.handleMaxAttemptsReached, on the contact as updated by
\* handleEndOfCall; the addTags call and the two after it are reached only
\* when the calls before them did not throw
handleMaxAttemptsReached(updated, fail) ==
    /\ contact' =
          IF fail = "updateConfirmationStatus" THEN updated
          ELSE IF fail = "addTags"
          THEN [updated EXCEPT !.confirmation_status = "no_answer"]
          ELSE [updated EXCEPT !.confirmation_status = "no_answer",
                               !.tags = @ \cup {"unreachable", "needs-manual-followup"}]
    /\ IF fail \in {"updateConfirmationStatus", "addTags"}
       THEN /\ UNCHANGED <<smsAttempted, smsSent, tasksCreated>>
            /\ response' = Threw("handleEndOfCall")
       ELSE /\ smsAttempted' = smsAttempted + 1
            /\ smsSent' = IF fail = "sendFallbackSMS" THEN smsSent ELSE smsSent + 1
            /\ tasksCreated' = tasksCreated + 1
            /\ response' = [handler |-> "handleEndOfCall", success |-> TRUE,
                            threw |-> FALSE, retry |-> FALSE,
                            maxAttemptsReached |-> TRUE, smsSent |-> TRUE,
                            taskCreated |-> TRUE]

\* EndOfCallHandler.handleEndOfCall for a payload about the contact
\* (hasContactId) or without metadata.contact_id; retryInfo is bound once,
\* as the const of the handler is
handleEndOfCall(hasContactId, endedReason, metadataTimezone, fail) ==
    IF ~hasContactId
    THEN /\ response' = [handler |-> "handleEndOfCall", success |-> FALSE,
                         threw |-> FALSE, error |-> "No contact ID"]
         /\ UNCHANGED <<contact, smsAttempted, smsSent, tasksCreated, retryInfo,
                        callsEnded, everExhausted>>
    ELSE LET currentAttempts == IF fail = "getContact" THEN 0 ELSE storedAttempts(contact)
             timezone == IF metadataTimezone # NoTimezone THEN metadataTimezone
                         ELSE detectTimezone(contact.phone)
         IN  \E info \in {calculateRetry([endedReason |-> endedReason,
                                            currentAttempts |-> currentAttempts,
                                            phoneNumber |-> contact.phone,
                                            timezone |-> timezone])} :
         LET updated == [contact EXCEPT
                            !.last_call_time = <<now>>,
                            !.call_attempts = <<info.attempts>>,
                            !.ended_reason = endedReason,
                            !.next_call_scheduled =
                                IF info.shouldRetry THEN <<info.nextCallTime>> ELSE @]
         IN  /\ retryInfo' = [op |-> "calculateRetry", ret |-> info]
             /\ callsEnded' = callsEnded + 1
             /\ everExhausted' = (everExhausted \/ ~info.shouldRetry)
             /\ IF fail = "updateCustomFields"
                THEN /\ response' = Threw("handleEndOfCall")
                     /\ UNCHANGED <<contact, smsAttempted, smsSent, tasksCreated>>
                ELSE IF ~info.shouldRetry
                THEN handleMaxAttemptsReached(updated, fail)
                ELSE /\ contact' = updated
                     /\ response' = [handler |-> "handleEndOfCall", success |-> TRUE,
                                     threw |-> FALSE, retry |-> TRUE,
                                     attempts |-> info.attempts,
                                     nextCallTime |-> info.nextCallTime,
                                     delayMinutes |-> info.adjustedDelayMinutes]
                     /\ UNCHANGED <<smsAttempted, smsSent, tasksCreated>>

InitialCallFailures == {"none", "createCall", "updateCustomFields"}

handleInitialCall_DefaultZone(hasFields, fail) ==
    IF ~hasFields
    THEN /\ response' = [handler |-> "handleInitialCall", success |-> FALSE,
                         threw |-> FALSE, error |-> "Missing contact_id or customer_phone"]
         /\ UNCHANGED <<contact, callsPlaced>>
    ELSE LET formattedPhone == formatPhoneNumber(contact.phone)
             timezone == DefaultTimezone
         IN  IF ~isWithinCallingHours(now, timezone)
             THEN LET nextValidTime == getNextValidCallingTime(now, timezone)
                  IN  /\ UNCHANGED callsPlaced
                      /\ IF fail = "updateCustomFields"
                         THEN /\ response' = Threw("handleInitialCall")
                              /\ UNCHANGED contact
                         ELSE /\ contact' = [contact EXCEPT
                                                !.next_call_scheduled = <<nextValidTime>>]
                              /\ response' = [handler |-> "handleInitialCall",
                                              success |-> TRUE, threw |-> FALSE,
                                              scheduled |-> TRUE,
                                              scheduledTime |-> nextValidTime]
             ELSE IF fail = "createCall"
             THEN /\ UNCHANGED callsPlaced
                  /\ contact' = [contact EXCEPT !.ended_reason = "assistant-error"]
                  /\ response' = [handler |-> "handleInitialCall", success |-> FALSE,
                                  threw |-> FALSE, error |-> "createCall"]
             ELSE IF fail = "updateCustomFields"
             THEN /\ callsPlaced' = callsPlaced + 1
                  /\ contact' = [contact EXCEPT !.ended_reason = "assistant-error"]
                  /\ response' = [handler |-> "handleInitialCall", success |-> FALSE,
                                  threw |-> FALSE, error |-> "updateCustomFields"]
             ELSE /\ callsPlaced' = callsPlaced + 1
                  /\ contact' = [contact EXCEPT !.last_call_time = <<now>>,
                                                !.call_attempts = <<1>>]
                  /\ response' = [handler |-> "handleInitialCall", success |-> TRUE,
                                  threw |-> FALSE, scheduled |-> FALSE]

\* GHLTriggerHandler.handleInitialCall for a payload carrying the contact's
\* id and phone (hasFields) or missing one of them
handleInitialCall(hasFields, fail) ==
    IF ~hasFields
    THEN /\ response' = [handler |-> "handleInitialCall", success |-> FALSE,
                         threw |-> FALSE, error |-> "Missing contact_id or customer_phone"]
         /\ UNCHANGED <<contact, callsPlaced>>
    ELSE LET formattedPhone == formatPhoneNumber(contact.phone)
             timezone == detectTimezone(formattedPhone)
         IN  IF ~isWithinCallingHours(now, timezone)
             THEN LET nextValidTime == getNextValidCallingTime(now, timezone)
                  IN  /\ UNCHANGED callsPlaced
                      /\ IF fail = "updateCustomFields"
                         THEN /\ response' = Threw("handleInitialCall")
                              /\ UNCHANGED contact
                         ELSE /\ contact' = [contact EXCEPT
                                                !.next_call_scheduled = <<nextValidTime>>]
                              /\ response' = [handler |-> "handleInitialCall",
                                              success |-> TRUE, threw |-> FALSE,
                                              scheduled |-> TRUE,
                                              scheduledTime |-> nextValidTime]
             ELSE IF fail = "createCall"
             THEN /\ UNCHANGED callsPlaced
                  /\ contact' = [contact EXCEPT !.ended_reason = "assistant-error"]
                  /\ response' = [handler |-> "handleInitialCall", success |-> FALSE,
                                  threw |-> FALSE, error |-> "createCall"]
             ELSE IF fail = "updateCustomFields"
             THEN /\ callsPlaced' = callsPlaced + 1
                  /\ contact' = [contact EXCEPT !.ended_reason = "assistant-error"]
                  /\ response' = [handler |-> "handleInitialCall", success |-> FALSE,
                                  threw |-> FALSE, error |-> "updateCustomFields"]
             ELSE /\ callsPlaced' = callsPlaced + 1
                  /\ contact' = [contact EXCEPT !.last_call_time = <<now>>,
                                                !.call_attempts = <<1>>]
                  /\ response' = [handler |-> "handleInitialCall", success |-> TRUE,
                                  threw |-> FALSE, scheduled |-> FALSE]

----------------------------------------------------------------------------
(* Specification of the service: the webhooks of one contact *)

\* end reasons reported by the call platform for the contact's calls
ReportedReasons == {"customer-did-not-answer", "assistant-error"}

\* the end reason reported for a call in which the conversation was completed
\* and the assistant hung up; the handlers name no end reason of their own
CompletedReasons == {"assistant-ended-call"}

\* end reasons of the events posted for the contact: an unanswered call and a
\* completed one
ServiceReasons == {"customer-did-not-answer"} \cup CompletedReasons

\* the contacts the CRM triggers calls for: a UK number, an Afghan number
ContactPhones == {PhoneUK, PhoneKabul}

\* metadata.timezone of an end-of-call payload: absent, or the zone put there
\* by handleInitialCall for the contact's number
MetadataTimezones == {NoTimezone, detectTimezone(formatPhoneNumber(contact.phone))}

\* clock readings of the service, in order: Friday 10:00, Friday 18:40:30.500,
\* Saturday 12:00, Monday 08:59:59.500, Monday 11:00 (UTC)
ServiceClock ==
    { 4 * MsPerDay + 10 * MsPerHour,
      4 * MsPerDay + 18 * MsPerHour + 40 * MsPerMinute + 30 * MsPerSecond + 500,
      5 * MsPerDay + 12 * MsPerHour,
      7 * MsPerDay + 8 * MsPerHour + 59 * MsPerMinute + 59 * MsPerSecond + 500,
      7 * MsPerDay + 11 * MsPerHour }

\* the service runs with the default business hours or with the second configuration
ServiceConfigs == { c \in ValidatorConfigs : c.startHour = 9 }

Init ==
    /\ epoch = JanuaryWeek
    /\ LoggerIdle
    /\ validator \in ServiceConfigs
    /\ now \in ServiceClock
    /\ calArgs = NoArgs
    /\ calQuery = NoQuery
    /\ retryArgs = NoArgs
    /\ retryInfo = NoRetryInfo
    /\ delayQuery = NoQuery
    /\ contact \in { NewContact(phone) : phone \in ContactPhones }
    /\ NoWebhookHandled
    /\ DetectorIdle

\* time passes
Tick ==
    /\ \E later \in ServiceClock : later > now /\ now' = later
    /\ UNCHANGED <<epoch, loggerVars, validator,
                   calVars, retryVars, retryInfo, handlerVars, detectorVars,
                   inFlight>>

\* POST /webhook/ghl/trigger-call
InitialCallTrigger ==
    /\ callsPlaced < MaxCallsPlaced
    /\ \E hasFields \in BOOLEAN, fail \in InitialCallFailures :
          handleInitialCall(hasFields, fail)
    /\ UNCHANGED <<epoch, loggerVars, validator,
                   now, calVars, retryVars, retryInfo, smsAttempted, smsSent,
                   tasksCreated, callsEnded, everExhausted, detectorVars, inFlight>>

\* the collaborator calls that can fail in a run of handleEndOfCall: those of
\* handleMaxAttemptsReached are reached only with a stored count of
\* MAX_ATTEMPTS or more; a payload without contact id reaches none
ReachedFailures(hasContactId) ==
    IF ~hasContactId THEN {"none"}
    ELSE IF storedAttempts(contact) >= MAX_ATTEMPTS THEN EndOfCallFailures
    ELSE {"none", "getContact", "updateCustomFields"}

\* POST /webhook/vapi/end-of-call, for a call that was placed; the payloads
\* during whose handling a collaborator fails carry no metadata.timezone
EndOfCallEvent ==
    /\ callsPlaced > 0
    /\ callsEnded < MaxCallsEnded
    /\ \E hasContactId \in BOOLEAN, endedReason \in ServiceReasons :
       \E fail \in ReachedFailures(hasContactId) :
       \E metadataTimezone \in IF hasContactId /\ fail = "none"
                                THEN MetadataTimezones ELSE {NoTimezone} :
          handleEndOfCall(hasContactId, endedReason, metadataTimezone, fail)
    /\ UNCHANGED <<epoch, loggerVars, validator, now, calVars, retryVars, callsPlaced,
                   detectorVars, inFlight>>

Next == Tick \/ InitialCallTrigger \/ EndOfCallEvent

Spec == Init /\ [][Next]_vars

----------------------------------------------------------------------------
(* Specification of concurrent end-of-call events of one contact.  The     *)
(* server handles each POST /webhook/vapi/end-of-call in its own run of    *)
(* handleEndOfCall; a run gives way to the other runs at each await: after *)
(* ghlClient.getContact was sent, after ghlClient.updateCustomFields was   *)
(* sent and before the handler goes on behind it.  No collaborator call    *)
(* fails, the payloads carry no metadata.timezone, and the runs overlap    *)
(* within one reading of the clock.                                        *)

\* the runs of handleEndOfCall, by the event each handles
Events == 1..ConcurrentEvents

\* the contact when the events arrive: calls have been placed for it and
\* call_attempts is unset or holds a count up to MAX_ATTEMPTS
ContactsCalled ==
    { [NewContact(PhoneUK) EXCEPT !.call_attempts = attempts] :
        attempts \in { <<>> } \cup { <<n>> : n \in 1..MAX_ATTEMPTS } }

\* a run that has received its payload and awaits getContact:
\* let currentAttempts = 0, retryInfo not computed yet
Received(endedReason) ==
    [pc |-> "getContact", endedReason |-> endedReason, currentAttempts |-> 0,
     retryInfo |-> NoRetryInfo, lastCallTime |-> 0]

InitConcurrent ==
    /\ epoch = JanuaryWeek
    /\ LoggerIdle
    /\ validator = DefaultValidator
    /\ now \in ServiceClock
    /\ calArgs = NoArgs
    /\ calQuery = NoQuery
    /\ retryArgs = NoArgs
    /\ retryInfo = NoRetryInfo
    /\ delayQuery = NoQuery
    /\ contact \in ContactsCalled
    /\ callsPlaced = 1
    /\ smsAttempted = 0
    /\ smsSent = 0
    /\ tasksCreated = 0
    /\ response = NoResponse
    /\ callsEnded = 0
    /\ everExhausted = FALSE
    /\ inFlight \in [Events -> { Received(endedReason) : endedReason \in ReportedReasons }]
    /\ DetectorIdle

\* getContact has answered with the contact as stored at this moment; the
\* run goes on to the next await: it reads call_attempts, detects the
\* timezone, computes retryInfo, builds customFieldsUpdate and sends it
GetContactReturns(e) ==
    /\ inFlight[e].pc = "getContact"
    /\ \E info \in {calculateRetry([endedReason |-> inFlight[e].endedReason,
                                     currentAttempts |-> storedAttempts(contact),
                                     phoneNumber |-> contact.phone,
                                     timezone |-> detectTimezone(contact.phone)])} :
          /\ inFlight' = [inFlight EXCEPT ![e] =
                             [@ EXCEPT !.pc = "updateCustomFields",
                                       !.currentAttempts = storedAttempts(contact),
                                       !.retryInfo = [op |-> "calculateRetry", ret |-> info],
                                       !.lastCallTime = now]]
          /\ retryInfo' = [op |-> "calculateRetry", ret |-> info]
          /\ everExhausted' = (everExhausted \/ ~info.shouldRetry)
    /\ UNCHANGED <<epoch, loggerVars, validator,
                   now, calVars, retryVars, detectorVars, contact, callsPlaced,
                   smsAttempted, smsSent, tasksCreated, response, callsEnded>>

\* the CRM applies the custom fields the run has sent
UpdateCustomFieldsApplied(e) ==
    /\ inFlight[e].pc = "updateCustomFields"
    /\ LET info == inFlight[e].retryInfo.ret
       IN  contact' = [contact EXCEPT
                          !.last_call_time = <<inFlight[e].lastCallTime>>,
                          !.call_attempts = <<info.attempts>>,
                          !.ended_reason = inFlight[e].endedReason,
                          !.next_call_scheduled =
                              IF info.shouldRetry THEN <<info.nextCallTime>> ELSE @]
    /\ inFlight' = [inFlight EXCEPT ![e].pc = "updated"]
    /\ UNCHANGED <<epoch, loggerVars, validator,
                   now, calVars, retryVars, retryInfo, detectorVars, callsPlaced,
                   smsAttempted, smsSent, tasksCreated, response, callsEnded,
                   everExhausted>>

\* the run goes on behind await updateCustomFields: it returns the retry
\* answer, or runs handleMaxAttemptsReached and returns its answer
HandlerCompletes(e) ==
    /\ inFlight[e].pc = "updated"
    /\ inFlight' = [inFlight EXCEPT ![e].pc = "done"]
    /\ callsEnded' = callsEnded + 1
    /\ LET info == inFlight[e].retryInfo.ret
       IN  IF ~info.shouldRetry
           THEN handleMaxAttemptsReached(contact, "none")
           ELSE /\ response' = [handler |-> "handleEndOfCall", success |-> TRUE,
                                threw |-> FALSE, retry |-> TRUE,
                                attempts |-> info.attempts,
                                nextCallTime |-> info.nextCallTime,
                                delayMinutes |-> info.adjustedDelayMinutes]
                /\ UNCHANGED <<contact, smsAttempted, smsSent, tasksCreated>>
    /\ UNCHANGED <<epoch, loggerVars, validator,
                   now, calVars, retryVars, retryInfo, detectorVars, callsPlaced,
                   everExhausted>>

NextConcurrent ==
    \/ \E e \in Events : GetContactReturns(e)
    \/ \E e \in Events : UpdateCustomFieldsApplied(e)
    \/ \E e \in Events : HandlerCompletes(e)

SpecConcurrent == InitConcurrent /\ [][NextConcurrent]_vars

----------------------------------------------------------------------------
(* Specification of the retry calculator in the weeks of a clock change:   *)
(* calculateRetry applied around the Sunday on which the zone of the       *)
(* number changes its offset                                               *)

\* clock readings from Friday evening to Monday morning (UTC) of the week,
\* with and without a second and a millisecond fraction
ClockChangeNowSamples ==
    { d * MsPerDay + h * MsPerHour + f : d \in 4..7, h \in {0, 3, 12, 18, 23},
                                         f \in {0, 30 * MsPerSecond + 500} }

\* a UK number, and numbers for which metadata.timezone names the zone
ClockChangeOptions ==
    [endedReason : {"customer-did-not-answer", "customer-ended-call"},
     currentAttempts : 0..(MAX_ATTEMPTS - 1),
     phoneNumber : {PhoneUK},
     timezone : {NoTimezone, "America/New_York", "Asia/Kabul"}]

InitClockChange ==
    /\ epoch \in ClockChangeWeeks
    /\ LoggerIdle
    /\ validator \in ValidatorConfigs
    /\ now \in ClockChangeNowSamples
    /\ calArgs = NoArgs
    /\ calQuery = NoQuery
    /\ retryArgs \in ClockChangeOptions
    /\ retryInfo = NoRetryInfo
    /\ delayQuery = NoQuery
    /\ HandlersIdle
    /\ DetectorIdle

SpecClockChange == InitClockChange /\ [][NextRetry]_vars

----------------------------------------------------------------------------
(* Specification of the logger: logger.error, logger.critical,             *)
(* logger.response and resetMetrics called on a logger that has been in    *)
(* use                                                                     *)

\* values of LOG_LEVEL the service is started with ("": not set)
LogLevelSettings == {"", "debug", "error", "critical"}

\* status codes of the responses logged
StatusCodes == {200, 404, 500}

\* duration of a request, in milliseconds
SampleDuration == 120

\* the metrics object after logger.error was called errorsLogged times and
\* logger.response was called responsesTimed times for responses of status
\* 200, counts that do not make either array longer than what it keeps
LoggedBefore(errorsLogged, responsesTimed) ==
    [FreshMetrics EXCEPT
        !.requests.success = responsesTimed,
        !.responseTime = [i \in 1..responsesTimed |-> SampleDuration],
        !.errors = IF currentLevel <= LOG_LEVELS.ERROR
                   THEN [i \in 1..errorsLogged |-> ErrorEntry("Unhandled error", "", 0)]
                   ELSE <<>>]

InitLogger ==
    /\ epoch = JanuaryWeek
    /\ validator = DefaultValidator
    /\ now = 4 * MsPerDay + 10 * MsPerHour
    /\ calArgs = NoArgs
    /\ calQuery = NoQuery
    /\ retryArgs = NoArgs
    /\ retryInfo = NoRetryInfo
    /\ delayQuery = NoQuery
    /\ HandlersIdle
    /\ DetectorIdle
    /\ currentLevel \in { levelFrom(logLevel) : logLevel \in LogLevelSettings }
    /\ metrics \in { LoggedBefore(errorsLogged, responsesTimed) :
                        errorsLogged \in {0, MaxErrorsKept - 1, MaxErrorsKept},
                        responsesTimed \in {0, MaxResponseTimesKept - 1,
                                            MaxResponseTimesKept} }
    /\ logCalls = 0

LoggerErrorCall ==
    /\ logCalls < MaxLogCalls
    /\ metrics' = loggerError(metrics, "Unhandled error", 0)
    /\ logCalls' = logCalls + 1
    /\ UNCHANGED <<epoch, currentLevel, validator, now, calVars, retryVars, retryInfo,
                   handlerVars, detectorVars, inFlight>>

LoggerCriticalCall ==
    /\ logCalls < MaxLogCalls
    /\ metrics' = loggerCritical(metrics, "Payment webhook failed")
    /\ logCalls' = logCalls + 1
    /\ UNCHANGED <<epoch, currentLevel, validator, now, calVars, retryVars, retryInfo,
                   handlerVars, detectorVars, inFlight>>

LoggerResponseCall ==
    /\ logCalls < MaxLogCalls
    /\ \E statusCode \in StatusCodes :
          metrics' = loggerResponse(metrics, statusCode, SampleDuration)
    /\ logCalls' = logCalls + 1
    /\ UNCHANGED <<epoch, currentLevel, validator, now, calVars, retryVars, retryInfo,
                   handlerVars, detectorVars, inFlight>>

ResetMetricsCall ==
    /\ logCalls < MaxLogCalls
    /\ metrics' = resetMetrics(metrics)
    /\ logCalls' = logCalls + 1
    /\ UNCHANGED <<epoch, currentLevel, validator, now, calVars, retryVars, retryInfo,
                   handlerVars, detectorVars, inFlight>>

NextLogger ==
    LoggerErrorCall \/ LoggerCriticalCall \/ LoggerResponseCall \/ ResetMetricsCall

SpecLogger == InitLogger /\ [][NextLogger]_vars

----------------------------------------------------------------------------
(* Wall-clock reading of the calendar arguments, stated on the local fields *)
(* (weekday, time of day) rather than on instants                          *)

\* local milliseconds since local day 0, 00:00, of an instant in a zone
WallClock(instant, timezone) ==
    instant + zoneOffsetMinutes(timezone, instant) * MsPerMinute

WallDay(instant, timezone) == WallClock(instant, timezone) \div MsPerDay
WallTimeOfDay(instant, timezone) == WallClock(instant, timezone) % MsPerDay
WallWeekday(instant, timezone) == (WallDay(instant, timezone) % 7) + 1

\* startTime and endTime of the configured window, as time of day
StartTime == (validator.startHour * 60 + validator.startMinute) * MsPerMinute
EndTime == (validator.endHour * 60 + validator.endMinute) * MsPerMinute

\* the instant at which the wall clock of the zone reads startTime on a local day
StartOfDayInstant(day, timezone) ==
    LET reading == day * MsPerDay + StartTime
        rule == zoneRule(timezone)
    IN  IF reading - rule.before * MsPerMinute < rule.at
        THEN reading - rule.before * MsPerMinute
        ELSE reading - rule.after * MsPerMinute

AllowedDay(day) == ((day % 7) + 1) \in validator.businessDays

\* callable: allowed weekday and startTime <= local time < endTime
Callable(instant, timezone) ==
    /\ WallWeekday(instant, timezone) \in validator.businessDays
    /\ WallTimeOfDay(instant, timezone) >= StartTime
    /\ WallTimeOfDay(instant, timezone) < EndTime

\* first allowed local day strictly after a local day
NextAllowedDay(day) ==
    CHOOSE d \in (day + 1)..(day + 7) :
        AllowedDay(d) /\ \A e \in (day + 1)..(d - 1) : ~AllowedDay(e)

----------------------------------------------------------------------------
(* Claims about the calendar, checked under SpecCal *)

\* C5: isWithinCallingHours(instant, timezone) is true exactly when the local
\* weekday of the instant is an allowed weekday and its local time is at or
\* after startTime and strictly before endTime.
C5_WithinIffAllowedDayAndWindow ==
    calQuery.op = "isWithinCallingHours" =>
        (calQuery.value <=> Callable(calArgs.dateTime, calArgs.timezone))

\* C5 witness: queries exactly on the two boundaries of the window on an
\* allowed weekday; the start one is answered true
C5_Witness ==
    /\ calQuery.op = "isWithinCallingHours"
    /\ WallWeekday(calArgs.dateTime, calArgs.timezone) \in validator.businessDays
    /\ WallTimeOfDay(calArgs.dateTime, calArgs.timezone) = StartTime
    /\ calQuery.value = TRUE

\* C6: for a non-callable instant getNextValidCallingTime returns the same
\* local day's startTime when the local time is before startTime on an allowed
\* weekday, and otherwise startTime on the first allowed weekday strictly
\* after the instant's local day.
C6_NextIsStartTimeOfDay ==
    (calQuery.op = "getNextValidCallingTime"
        /\ ~Callable(calArgs.dateTime, calArgs.timezone)) =>
        LET day == WallDay(calArgs.dateTime, calArgs.timezone)
        IN  IF WallTimeOfDay(calArgs.dateTime, calArgs.timezone) < StartTime
               /\ AllowedDay(day)
            THEN calQuery.value = StartOfDayInstant(day, calArgs.timezone)
            ELSE calQuery.value = StartOfDayInstant(NextAllowedDay(day), calArgs.timezone)

\* distances, before the result, at which an earlier callable instant is looked for
EarlierProbes == {1, MsPerSecond \div 2, MsPerSecond - 1, MsPerMinute, MsPerHour}

\* C7: the result of getNextValidCallingTime is callable and no callable
\* instant lies at or after the argument and strictly before the result.
C7_NextIsLeastCallable ==
    calQuery.op = "getNextValidCallingTime" =>
        /\ Callable(calQuery.value, calArgs.timezone)
        /\ \A k \in EarlierProbes :
              ~ ( /\ calArgs.dateTime <= calQuery.value - k
                  /\ Callable(calQuery.value - k, calArgs.timezone) )

\* C8: for an instant already within calling hours getNextValidCallingTime
\* returns that instant, and applying it to its own result returns the result.
C8_Idempotent ==
    calQuery.op = "getNextValidCallingTime" =>
        /\ Callable(calArgs.dateTime, calArgs.timezone) => calQuery.value = calArgs.dateTime
        /\ getNextValidCallingTime(calQuery.value, calArgs.timezone) = calQuery.value

\* C8 witness: the query was made for an instant within calling hours
C8_Witness ==
    /\ calQuery.op = "getNextValidCallingTime"
    /\ Callable(calArgs.dateTime, calArgs.timezone)
    /\ calQuery.value = calArgs.dateTime

\* C9: getNextValidCallingTime(instant, timezone) is never earlier than instant.
C9_Monotone ==
    calQuery.op = "getNextValidCallingTime" => calQuery.value >= calArgs.dateTime

\* C9 witness: the query was made after endTime on an allowed weekday and
\* answered with a later instant
C9_Witness ==
    /\ calQuery.op = "getNextValidCallingTime"
    /\ WallWeekday(calArgs.dateTime, calArgs.timezone) \in validator.businessDays
    /\ WallTimeOfDay(calArgs.dateTime, calArgs.timezone) >= EndTime
    /\ calQuery.value > calArgs.dateTime

----------------------------------------------------------------------------
(* Claims about the retry calculator, checked under SpecRetry *)

\* C1: calculateRetry returns a Retry decision (shouldRetry true) exactly when
\* attemptsSoFar < MAX_ATTEMPTS, whatever the end reason, phone number and
\* timezone; for attemptsSoFar >= MAX_ATTEMPTS it returns the Exhausted
\* decision with attempts = attemptsSoFar and action "send_sms_fallback".
C1_RetryIffBelowMaxAttempts ==
    retryInfo.op = "calculateRetry" =>
        /\ retryInfo.ret.shouldRetry <=> (retryArgs.currentAttempts < MAX_ATTEMPTS)
        /\ retryArgs.currentAttempts >= MAX_ATTEMPTS =>
              /\ retryInfo.ret.attempts = retryArgs.currentAttempts
              /\ retryInfo.ret.action = "send_sms_fallback"

\* C1 witness: the call at the boundary attemptsSoFar = MAX_ATTEMPTS, answered Exhausted
C1_Witness ==
    /\ retryInfo.op = "calculateRetry"
    /\ retryArgs.currentAttempts = MAX_ATTEMPTS
    /\ ~retryInfo.ret.shouldRetry

\* C4: in a Retry decision, with target = now + delayMinutes: if the target is
\* callable, nextCallTime is the target, the decision is not marked adjusted
\* and the reported delay is the nominal one; otherwise nextCallTime is
\* getNextValidCallingTime(target), the decision is marked adjusted and the
\* reported delay is the gap between now and nextCallTime in minutes (to the
\* nearest minute).
C4_AdjustmentReported ==
    (retryInfo.op = "calculateRetry" /\ retryInfo.ret.shouldRetry) =>
        LET r == retryInfo.ret
            target == now + r.originalDelayMinutes * MsPerMinute
            gap == r.nextCallTime - now
        IN  IF Callable(target, r.timezone)
            THEN /\ r.nextCallTime = target
                 /\ ~r.wasAdjustedForBusinessHours
                 /\ r.adjustedDelayMinutes = r.originalDelayMinutes
            ELSE /\ r.nextCallTime = getNextValidCallingTime(target, r.timezone)
                 /\ r.wasAdjustedForBusinessHours
                 /\ 2 * (r.adjustedDelayMinutes * MsPerMinute - gap) <= MsPerMinute
                 /\ 2 * (gap - r.adjustedDelayMinutes * MsPerMinute) <= MsPerMinute

\* C4 witness: a Retry decision whose target was moved, reporting a delay
\* other than the nominal one
C4_Witness ==
    /\ retryInfo.op = "calculateRetry"
    /\ retryInfo.ret.shouldRetry
    /\ retryInfo.ret.wasAdjustedForBusinessHours
    /\ retryInfo.ret.adjustedDelayMinutes # retryInfo.ret.originalDelayMinutes

\* C10: for a reason whose schedule has k delays, the delay for attempt index
\* i is the i-th delay when 0 <= i < k and the last delay when i >= k;
\* "customer-did-not-answer" at index 0 gives 30 minutes.
C10_DelayClampsToLast ==
    delayQuery.op = "delayMinutes" =>
        LET schedule == IF retryArgs.endedReason \in DOMAIN RETRY_DELAYS
                        THEN RETRY_DELAYS[retryArgs.endedReason]
                        ELSE RETRY_DELAYS["default"]
            k == Len(schedule)
            i == retryArgs.currentAttempts
        IN  /\ (0 <= i /\ i < k) => delayQuery.value = schedule[i + 1]
            /\ i >= k => delayQuery.value = schedule[k]
            /\ (retryArgs.endedReason = "customer-did-not-answer" /\ i = 0)
                  => delayQuery.value = 30

\* C10 witness: the delay asked for index 5 of a schedule of 3 delays
C10_Witness ==
    /\ delayQuery.op = "delayMinutes"
    /\ retryArgs.currentAttempts = 5
    /\ delayQuery.value = delaysFor(retryArgs.endedReason)[3]

\* C15: the timezone used for the business-hours check and reported in the
\* Retry decision is the explicitly provided timezone whenever one is given,
\* and the phone-derived timezone from detectTimezone only when none is
\* given; the Retry decision's attempt number is attemptsSoFar + 1.
C15_ProvidedTimezoneFirst ==
    (retryInfo.op = "calculateRetry" /\ retryInfo.ret.shouldRetry) =>
        LET r == retryInfo.ret
            used == IF retryArgs.timezone # "" THEN retryArgs.timezone
                    ELSE detectTimezone(retryArgs.phoneNumber)
            target == now + r.originalDelayMinutes * MsPerMinute
        IN  /\ r.timezone = used
            /\ r.wasAdjustedForBusinessHours <=> ~Callable(target, used)
            /\ r.wasAdjustedForBusinessHours =>
                  r.nextCallTime = getNextValidCallingTime(target, used)
            /\ r.attempts = retryArgs.currentAttempts + 1

\* C15 witness: a Retry decision for a Kabul number with America/New_York
\* provided, where the two zones disagree on whether the target is callable
C15_Witness ==
    /\ retryInfo.op = "calculateRetry"
    /\ retryInfo.ret.shouldRetry
    /\ retryArgs.timezone = "America/New_York"
    /\ retryInfo.ret.timezone = "America/New_York"
    /\ detectTimezone(retryArgs.phoneNumber) = "Asia/Kabul"
    /\ Callable(now + retryInfo.ret.originalDelayMinutes * MsPerMinute, "Asia/Kabul")
    /\ retryInfo.ret.wasAdjustedForBusinessHours
    /\ retryInfo.ret.attempts = retryArgs.currentAttempts + 1

\* C18: calculateRetry yields an invalid-argument error for every
\* attemptsSoFar < 0 and never returns a Retry or Exhausted decision for it.
C18_NegativeAttemptsRejected ==
    (retryInfo.op = "calculateRetry" /\ retryArgs.currentAttempts < 0) =>
        /\ "error" \in DOMAIN retryInfo.ret
        /\ "shouldRetry" \notin DOMAIN retryInfo.ret

----------------------------------------------------------------------------
(* Claims about the timezone detector, checked under SpecTz *)

\* a phone number with whitespace, hyphens and parentheses removed
RECURSIVE Stripped(_)
Stripped(phoneNumber) ==
    IF phoneNumber = <<>>
    THEN <<>>
    ELSE IF Head(phoneNumber) \in {" ", "-", "(", ")"}
    THEN Stripped(Tail(phoneNumber))
    ELSE <<Head(phoneNumber)>> \o Stripped(Tail(phoneNumber))

IsPrefix(a, b) == Len(a) <= Len(b) /\ \A i \in 1..Len(a) : a[i] = b[i]

\* the table prefixes that are prefixes of the cleaned phone number
TablePrefixes(phoneNumber) ==
    { code \in DOMAIN timezoneMap : IsPrefix(code, Stripped(phoneNumber)) }

\* C12: among all table prefixes that are prefixes of the cleaned phone
\* number, detectTimezone returns the zone of the longest one; a number
\* starting with +1809 resolves to America/Santo_Domingo, a +1 number not
\* starting with +1809 to America/New_York; no two distinct table prefixes
\* tie as the longest match.
C12_LongestPrefixWins ==
    tzQuery.op = "detectTimezone" =>
        LET prefixes == TablePrefixes(tzArgs)
            longest == { code \in prefixes : \A other \in prefixes : Len(other) <= Len(code) }
        IN  /\ \A code \in longest : tzQuery.value = timezoneMap[code]
            /\ Cardinality(longest) <= 1
            /\ IsPrefix(<<"+", "1", "8", "0", "9">>, Stripped(tzArgs))
                  => tzQuery.value = "America/Santo_Domingo"
            /\ (IsPrefix(<<"+", "1">>, Stripped(tzArgs))
                  /\ ~IsPrefix(<<"+", "1", "8", "0", "9">>, Stripped(tzArgs)))
                  => tzQuery.value = "America/New_York"

\* C12 witness: a number starting with +1809, which +1 also matches, was
\* resolved to the Dominican Republic zone
C12_Witness ==
    /\ tzQuery.op = "detectTimezone"
    /\ Cardinality(TablePrefixes(tzArgs)) = 2
    /\ tzQuery.value = "America/Santo_Domingo"

\* C13: for every phone number whose cleaned form starts with no table prefix
\* (a missing or empty phone number included) detectTimezone returns the
\* configured default timezone, Europe/London when DEFAULT_TIMEZONE is not
\* set, and getCountryCode returns none.
C13_UnresolvableGivesDefault ==
    TablePrefixes(tzArgs) = {} =>
        /\ tzQuery.op = "detectTimezone" =>
              tzQuery.value = IF env.DEFAULT_TIMEZONE = "" THEN "Europe/London"
                              ELSE env.DEFAULT_TIMEZONE
        /\ codeQuery.op = "getCountryCode" => codeQuery.value = <<>>

\* C13 witness: both calls were made for a number that is present and that
\* no prefix matches, with DEFAULT_TIMEZONE unset
C13_Witness ==
    /\ tzArgs # <<>>
    /\ Stripped(tzArgs) # <<>>
    /\ TablePrefixes(tzArgs) = {}
    /\ env.DEFAULT_TIMEZONE = ""
    /\ tzQuery.op = "detectTimezone"
    /\ tzQuery.value = "Europe/London"
    /\ codeQuery.op = "getCountryCode"
    /\ codeQuery.value = <<>>

\* C14: for every phone number p, detectTimezone(p) and getCountryCode(p)
\* equal the results for p with all whitespace, hyphens and parentheses
\* removed.
C14_SeparatorInsensitive ==
    /\ tzQuery.op = "detectTimezone" => tzQuery.value = detectTimezone(Stripped(tzArgs))
    /\ codeQuery.op = "getCountryCode" => codeQuery.value = getCountryCode(Stripped(tzArgs))

\* C14 witness: '+1 (809) 555-0100' was resolved like '+18095550100'
C14_Witness ==
    /\ tzArgs = <<"+", "1", " ", "(", "8", "0", "9", ")", " ", "5", "5", "5", "-",
                  "0", "1", "0", "0">>
    /\ tzQuery.op = "detectTimezone"
    /\ tzQuery.value = "America/Santo_Domingo"
    /\ codeQuery.op = "getCountryCode"
    /\ codeQuery.value = <<"+", "1", "8", "0", "9">>

----------------------------------------------------------------------------
(* Claims about the timezone detector module, checked under SpecTzModule *)

\* C16: for a fixed phone number detectTimezone returns the same timezone at
\* every point of every sequence of operations on the module (addMapping,
\* getCountryCode and other detectTimezone calls interleaved), and no
\* detectTimezone or getCountryCode call changes the prefix table.
C16_ResolverStateless ==
    [][ /\ Cardinality(detected') <= 1
        /\ (tzQuery' # tzQuery \/ codeQuery' # codeQuery) => timezoneMap' = timezoneMap
      ]_vars

----------------------------------------------------------------------------
(* Claims about the configuration, checked under SpecStartup *)

\* two entries of the timezone table are written for one prefix
DuplicatePrefixes ==
    \E i, j \in DOMAIN TimezoneEntries :
        i # j /\ TimezoneEntries[i][1] = TimezoneEntries[j][1]

\* no weekday (1 = Monday ... 7 = Sunday) is allowed
EmptyWeekdaySet == validator.businessDays \cap (1..7) = {}

\* a request has been served: one of isWithinCallingHours,
\* getNextValidCallingTime and calculateRetry has produced a result
RequestServed == calQuery.op # "none" \/ retryInfo.op # "none"

\* C17: a configuration with duplicate timezone prefixes, with an empty
\* allowed-weekday set or with a business-hours window whose startTime is
\* not before its endTime is rejected when it is loaded: no
\* isWithinCallingHours, getNextValidCallingTime or calculateRetry result is
\* ever produced under it.
C17_ConfigurationErrorsFatal ==
    /\ DuplicatePrefixes => ~RequestServed
    /\ EmptyWeekdaySet => ~RequestServed
    /\ StartTime >= EndTime => ~RequestServed

----------------------------------------------------------------------------
(* Claims about end reasons without a policy entry, checked under SpecReason *)

\* C11: an end reason that has no entry in the retry policy table is not an
\* error: the delay selected for it is the one of the default schedule (60
\* minutes at attempt index 0, then 180, then 360), and calculateRetry
\* returns a normal decision for it: Retry with that nominal delay below
\* MAX_ATTEMPTS, Exhausted from MAX_ATTEMPTS on.
C11_UnlistedReasonUsesDefault ==
    LET i == retryArgs.currentAttempts
        expected == IF i = 0 THEN 60 ELSE IF i = 1 THEN 180 ELSE 360
    IN  /\ (delayQuery.op = "delayMinutes"
               /\ retryArgs.endedReason \notin DOMAIN RETRY_DELAYS)
              => delayQuery.value = expected
        /\ (retryInfo.op = "calculateRetry"
               /\ retryArgs.endedReason \notin DOMAIN RETRY_DELAYS)
              => IF i < MAX_ATTEMPTS
                 THEN /\ retryInfo.ret.shouldRetry
                      /\ retryInfo.ret.originalDelayMinutes = expected
                 ELSE ~retryInfo.ret.shouldRetry

----------------------------------------------------------------------------
(* Claims about the retry lifecycle of a contact, checked under Spec *)

\* C2: Exhausted is terminal: once an end-of-call event of the contact has been
\* decided as Exhausted, no later step produces a Retry decision for the
\* contact, places a call for it or schedules another call for it.
C2_ExhaustedIsTerminal ==
    [][ everExhausted =>
          /\ callsPlaced' = callsPlaced
          /\ contact'.next_call_scheduled = contact.next_call_scheduled
          /\ ~ (callsEnded' # callsEnded /\ retryInfo'.ret.shouldRetry) ]_vars

\* C3: the SMS fallback and the manual follow-up task are triggered after 3
\* call attempts: never before the third attempt of the contact has ended,
\* and once the end-of-call event of the third attempt has been handled they
\* have been triggered.
C3_FallbackAfterThreeAttempts ==
    /\ (smsAttempted > 0 \/ tasksCreated > 0) => callsEnded >= MAX_ATTEMPTS
    /\ callsEnded >= MAX_ATTEMPTS => (smsAttempted > 0 /\ tasksCreated > 0)

----------------------------------------------------------------------------
(* Claims about concurrent end-of-call events, checked under SpecConcurrent *)

\* the run of an event has had its custom fields written to the contact
HasWritten(e) == inFlight[e].pc \in {"updated", "done"}

\* C19: when two end-of-call events of one contact are handled concurrently,
\* no two of them schedule a retry from the same attemptsSoFar value: no two
\* handled events write the same next attempt number, and no attempt-count
\* update is lost (after two Retry writes the stored count is two above the
\* count the first of them read).
C19_AtMostOneRetryPerAttempt ==
    \A e1, e2 \in DOMAIN inFlight :
        ( /\ e1 # e2
          /\ HasWritten(e1) /\ HasWritten(e2)
          /\ inFlight[e1].retryInfo.ret.shouldRetry
          /\ inFlight[e2].retryInfo.ret.shouldRetry ) =>
            /\ inFlight[e1].currentAttempts # inFlight[e2].currentAttempts
            /\ inFlight[e1].retryInfo.ret.attempts # inFlight[e2].retryInfo.ret.attempts
            /\ \E first \in {e1, e2} :
                  storedAttempts(contact) = inFlight[first].currentAttempts + 2

\* C20: when a run of handleEndOfCall completes for a contact, the contact
\* store reflects the run's decision: on Retry the stored attempt count is
\* attemptsSoFar + 1 and next_call_scheduled is the decision's nextCallTime;
\* on Exhausted the contact has confirmation status no_answer and the tags
\* unreachable and needs-manual-followup.
C20_StoreReflectsDecision ==
    [][ \A e \in DOMAIN inFlight :
          (inFlight[e].pc = "updated" /\ inFlight'[e].pc = "done") =>
              LET info == inFlight[e].retryInfo.ret
              IN  IF info.shouldRetry
                  THEN /\ contact'.call_attempts = <<inFlight[e].currentAttempts + 1>>
                       /\ contact'.next_call_scheduled = <<info.nextCallTime>>
                  ELSE /\ contact'.confirmation_status = "no_answer"
                       /\ {"unreachable", "needs-manual-followup"} \subseteq contact'.tags
      ]_vars

----------------------------------------------------------------------------
(* Claims about the webhook handlers of one contact, checked under Spec *)

\* the timezone handleInitialCall derives from the contact's phone
PhoneTimezone == detectTimezone(formatPhoneNumber(contact.phone))

\* the step is a run of handleInitialCall
InitialCallHandled == response'.handler = "handleInitialCall" /\ now' = now

\* the step is a run of handleEndOfCall for a payload with a contact id
EndOfCallHandled == callsEnded' = callsEnded + 1

\* C21: pre-flight business-hours check: a run of handleInitialCall places a
\* call only if the current instant is within calling hours in the timezone
\* derived from the contact's phone; outside them it places no call, leaves
\* the attempt count as it was, and the run that succeeds has stored
\* next_call_scheduled = getNextValidCallingTime(now, timezone), the only
\* field it changes.
C21_PreflightCheck ==
    [][ InitialCallHandled =>
          /\ callsPlaced' # callsPlaced => Callable(now, PhoneTimezone)
          /\ ~Callable(now, PhoneTimezone) =>
                /\ callsPlaced' = callsPlaced
                /\ contact'.call_attempts = contact.call_attempts
                /\ IF response'.success
                   THEN contact' = [contact EXCEPT !.next_call_scheduled =
                                       <<getNextValidCallingTime(now, PhoneTimezone)>>]
                   ELSE contact' = contact ]_vars

\* a trigger for the Afghan contact was answered by scheduling, at an instant
\* at which a UK number could have been called
C21_Witness ==
    /\ response.handler = "handleInitialCall"
    /\ response.success /\ response.scheduled
    /\ contact.phone = PhoneKabul
    /\ Callable(now, "Europe/London")
    /\ ~Callable(now, PhoneTimezone)
    /\ callsPlaced = 0
    /\ contact.call_attempts = <<>>
    /\ contact.next_call_scheduled = <<getNextValidCallingTime(now, PhoneTimezone)>>

\* C22: call_attempts has a maximum of 3: starting from a contact with no
\* attempts, after any sequence of initial-call triggers and handled
\* end-of-call events the value stored in call_attempts is an integer between
\* 0 and MAX_ATTEMPTS inclusive, and so is the attempts value of every decision.
C22_AttemptsWithinBounds ==
    /\ storedAttempts(contact) \in 0..MAX_ATTEMPTS
    /\ retryInfo.op = "calculateRetry" => retryInfo.ret.attempts \in 0..MAX_ATTEMPTS

\* the count has reached MAX_ATTEMPTS and a further end-of-call event, decided
\* as Exhausted, has written it again
C22_Witness ==
    /\ contact.call_attempts = <<MAX_ATTEMPTS>>
    /\ callsEnded > MAX_ATTEMPTS
    /\ response.handler = "handleEndOfCall" /\ response.success
    /\ ~response.retry

\* the lifecycle state of a contact read from the service: in
\* AttemptPending(n), n attempts have ended without an Exhausted decision and
\* attempt n + 1 has been placed and counted
AttemptPending(c, exhausted, placed, n) ==
    ~exhausted /\ placed > 0 /\ storedAttempts(c) = n + 1

\* C23: retry lifecycle transition rule: from AttemptPending(n), a handled
\* end-of-call event leads to AttemptPending(n+1) if n+1 < MAX_ATTEMPTS and
\* otherwise to Exhausted, and no other step leaves AttemptPending(n) (a run
\* of the handler that throws has either made the transition or none).
C23_LifecycleTransitions ==
    [][ \A n \in 0..MAX_ATTEMPTS :
          AttemptPending(contact, everExhausted, callsPlaced, n) =>
            LET stays == AttemptPending(contact', everExhausted', callsPlaced', n)
                moves == IF n + 1 < MAX_ATTEMPTS
                         THEN AttemptPending(contact', everExhausted', callsPlaced', n + 1)
                         ELSE everExhausted'
            IN  IF EndOfCallHandled
                THEN moves \/ (response'.threw /\ stays)
                ELSE stays ]_vars

\* C26: the attempt count persisted for a contact never decreases: every step
\* of handleInitialCall or handleEndOfCall, the runs in which the contact
\* fetch fails included, leaves call_attempts at least as large as it was.
C26_AttemptsNeverDecrease ==
    [][ storedAttempts(contact') >= storedAttempts(contact) ]_vars

\* C27: the fallback is delivered at most once per contact: over any sequence
\* of handled end-of-call events the fallback SMS is sent at most one time and
\* the manual follow-up task is created at most one time.
C27_FallbackAtMostOnce ==
    /\ smsAttempted <= 1
    /\ tasksCreated <= 1

\* C28: an Exhausted decision always leads to the fallback being attempted: a
\* run of handleEndOfCall that computes shouldRetry = false attempts the
\* fallback SMS and creates the manual follow-up task, whichever contact-store
\* write or SMS send fails.
C28_ExhaustedAttemptsFallback ==
    [][ (EndOfCallHandled /\ ~retryInfo'.ret.shouldRetry) =>
          /\ smsAttempted' = smsAttempted + 1
          /\ tasksCreated' = tasksCreated + 1 ]_vars

\* C29: retries happen only when a call was not answered or not completed: a
\* run of handleEndOfCall for an event that reports a successfully completed
\* call does not increment the attempt count, schedule a next call or trigger
\* the SMS fallback.
C29_CompletedCallNotRetried ==
    [][ (EndOfCallHandled /\ contact'.ended_reason \in CompletedReasons) =>
          /\ storedAttempts(contact') = storedAttempts(contact)
          /\ contact'.next_call_scheduled = contact.next_call_scheduled
          /\ smsAttempted' = smsAttempted
          /\ tasksCreated' = tasksCreated ]_vars

----------------------------------------------------------------------------
(* Claims about the instants the retry calculator schedules, checked under *)
(* SpecRetry                                                               *)

----------------------------------------------------------------------------
(* Claims about the logger, checked under SpecLogger *)

\* C30: the logger keeps only the last 100 errors: after any sequence of
\* logger.error, logger.critical, logger.response and resetMetrics calls,
\* metrics.errors holds at most 100 entries and metrics.responseTime holds
\* at most 1000 entries.
C30_BuffersBounded ==
    /\ Len(metrics.errors) <= MaxErrorsKept
    /\ Len(metrics.responseTime) <= MaxResponseTimesKept

----------------------------------------------------------------------------
(* Claims about clock changes, checked under SpecClockChange *)

\* the zone changes its offset during the week
HasClockChange(timezone) == zoneRule(timezone).before # zoneRule(timezone).after

\* the local day on which the zone changes its offset
ClockChangeDay(timezone) == WallDay(zoneRule(timezone).at, timezone)

\* the target of a Retry decision: now plus the nominal delay
RetryTarget == now + retryInfo.ret.originalDelayMinutes * MsPerMinute

\* the target, or the day the call was moved to, is the day of the clock change
OnClockChangeDay ==
    /\ retryInfo.op = "calculateRetry"
    /\ retryInfo.ret.shouldRetry
    /\ HasClockChange(retryInfo.ret.timezone)
    /\ \/ WallDay(RetryTarget, retryInfo.ret.timezone)
             = ClockChangeDay(retryInfo.ret.timezone)
       \/ WallDay(retryInfo.ret.nextCallTime, retryInfo.ret.timezone)
             = ClockChangeDay(retryInfo.ret.timezone)

\* the local day a target that is not callable is moved to
AdjustedDay(target, timezone) ==
    IF AllowedDay(WallDay(target, timezone)) /\ WallTimeOfDay(target, timezone) < StartTime
    THEN WallDay(target, timezone)
    ELSE NextAllowedDay(WallDay(target, timezone))

\* C24: DST safety: when the retry target or the adjusted day falls on the
\* day of a clock change of the timezone, nextCallTime has the local
\* wall-clock time startTime when the call was adjusted, on the local calendar
\* day the target is moved to, and is the original target when it was not.
C24_ClockChangeSafe ==
    OnClockChangeDay =>
        LET info == retryInfo.ret
        IN  IF info.wasAdjustedForBusinessHours
            THEN /\ WallDay(info.nextCallTime, info.timezone)
                       = AdjustedDay(RetryTarget, info.timezone)
                 /\ WallTimeOfDay(info.nextCallTime, info.timezone) = StartTime
            ELSE info.nextCallTime = RetryTarget

====
